---- MODULE Spec2Model ----
(***************************************************************************)
(* A state-machine model of the GitHub App webhook bot:                    *)
(*   - app.py                     webhook, verify_signature                *)
(*   - services/github/github_auth.py    verify_signature,                 *)
(*                                       get_installation_token            *)
(*   - services/github/github_utils.py   extract_owner_repo                *)
(*   - services/github/github_events.py  handle_github_event, the handlers *)
(*                                       and _run_review_job               *)
(*   - services/openai/requests.py       review_pull_request               *)
(* GitHub and the model provider are the environment: every network call   *)
(* either succeeds or fails, chosen nondeterministically.                  *)
(***************************************************************************)
EXTENDS Integers, Sequences, FiniteSets, TLC

VARIABLES
    GH_WEBHOOK_SECRET,  \* app.py:10 / github_auth.py:11, the configured secret
    ALLOWED_OWNERS,     \* app.py:6, the owner allow-list (empty: no filtering)
    payload,            \* the event GitHub delivers in this run
    now,                \* time.time(), in seconds
    _token_cache,        \* github_auth.py:19, installation id -> entry
    issued,             \* GitHub's side: the tokens issued so far, by serial
    comments,           \* GitHub's side: comment id -> body
    jobs,               \* the review-job threads started so far
    deliveries,         \* number of handle_github_event invocations so far
    callers,            \* the threads inside a library function of the app
    discussions,        \* GitHub's side: discussion titles, newest first
    last                \* what the latest step did (history variable)

vars == << GH_WEBHOOK_SECRET, ALLOWED_OWNERS, payload, now, _token_cache,
           issued, comments, jobs, deliveries, callers, discussions, last >>

\* What the router, the review jobs and the front door never change
config ==
    << GH_WEBHOOK_SECRET, ALLOWED_OWNERS, payload, callers, discussions >>

(***************************************************************************)
(* Bounds of the model.                                                    *)
(***************************************************************************)
MaxTime == 180
MaxDeliveries == 2
MaxExchanges == 3
MaxCallers == 2

\* The clock advances in steps of this set (seconds).
TickSteps == {60}

(***************************************************************************)
(* Python string operations, on TLA+ strings.                              *)
(***************************************************************************)
UpperChars == "ABCDEFGHIJKLMNOPQRSTUVWXYZ"
LowerChars == "abcdefghijklmnopqrstuvwxyz"
Whitespace == {" ", "\t", "\n", "\r"}
LineBreaks == {"\n", "\r"}

CharAt(s, i) == SubSeq(s, i, i)

\* str.lower() of one character
LowerChar(c) ==
    IF \E i \in 1..26 : CharAt(UpperChars, i) = c
    THEN CharAt(LowerChars, CHOOSE i \in 1..26 : CharAt(UpperChars, i) = c)
    ELSE c

\* str.lower()
Lower(s) ==
    LET F[i \in 0..Len(s)] ==
            IF i = 0 THEN "" ELSE F[i - 1] \o LowerChar(CharAt(s, i))
    IN  F[Len(s)]

\* str.lstrip()
LStrip(s) ==
    LET keep == { i \in 1..Len(s) : CharAt(s, i) \notin Whitespace } IN
    IF keep = {} THEN ""
    ELSE SubSeq(s, CHOOSE i \in keep : \A j \in keep : i <= j, Len(s))

\* str.rstrip()
RStrip(s) ==
    LET keep == { i \in 1..Len(s) : CharAt(s, i) \notin Whitespace } IN
    IF keep = {} THEN ""
    ELSE SubSeq(s, 1, CHOOSE i \in keep : \A j \in keep : j <= i)

\* str.strip()
Strip(s) == RStrip(LStrip(s))

\* str.startswith(p)
StartsWith(s, p) == Len(s) >= Len(p) /\ SubSeq(s, 1, Len(p)) = p

\* str.endswith(p)
EndsWith(s, p) ==
    Len(s) >= Len(p) /\ SubSeq(s, Len(s) - Len(p) + 1, Len(s)) = p

\* index of the first character of s at or after i that is in cs, 0 when
\* there is none
FindIn(s, cs, i) ==
    LET at == { k \in i..Len(s) : CharAt(s, k) \in cs } IN
    IF at = {} THEN 0 ELSE CHOOSE k \in at : \A m \in at : k <= m

\* str.splitlines(): the lines of s without their line breaks
SplitLines(s) ==
    LET L[i \in 1..(Len(s) + 1)] ==
            IF i > Len(s) THEN << >>
            ELSE LET k == FindIn(s, LineBreaks, i) IN
                 IF k = 0 THEN << SubSeq(s, i, Len(s)) >>
                 ELSE << SubSeq(s, i, k - 1) >> \o L[k + 1]
    IN  L[1]

\* str.split(): the whitespace-separated tokens of s
Split(s) ==
    LET T[i \in 1..(Len(s) + 1)] ==
            IF i > Len(s) THEN << >>
            ELSE IF CharAt(s, i) \in Whitespace THEN T[i + 1]
            ELSE LET k == FindIn(s, Whitespace, i) IN
                 IF k = 0 THEN << SubSeq(s, i, Len(s)) >>
                 ELSE << SubSeq(s, i, k - 1) >> \o T[k + 1]
    IN  T[1]

(***************************************************************************)
(* CredentialCache: github_auth.get_installation_token.                    *)
(***************************************************************************)
\* The safety margin of the cache test, in seconds
Margin == 60

\* Installation ids; 0 stands for a payload without installation.id (None)
InstallationIds == {1, 2}

\* "no entry" of _token_cache, and the unbound local variable `token`
NoEntry == [token |-> 0, exp_epoch |-> 0]

\* Lifetimes of the tokens GitHub issues (expires_at - time of issue)
Lifetimes == {150}

\* What the token-exchange endpoint may answer for installation `inst`
ExchangeResponses(inst) ==
    {[ok |-> FALSE, life |-> 0]}
        \cup (IF inst \in InstallationIds
              THEN {[ok |-> TRUE, life |-> l] : l \in Lifetimes} ELSE {})

\* A cache test that never looks at the expiry
CacheHitAlways(entry, t) == entry # NoEntry

\* The cache test of get_installation_token
CacheHit(entry, t) == entry # NoEntry /\ t < entry.exp_epoch - Margin

\* What a call of get_installation_token did: whether it raised, the token
\* it returned (0: none), the cache it left, how the exchange call went
\* ("none": not made), the entry GitHub granted, and the call's arguments
TokenResult(raised, token, cache, exchange, grant, inst, before, t) ==
    [raised |-> raised, token |-> token, cache |-> cache,
     exchange |-> exchange, grant |-> grant, inst |-> inst,
     before |-> before, at |-> t]

\* lines 88-89: return entry["token"]
TokenCached(c, entry, inst, t) ==
    TokenResult(FALSE, entry.token, c, "none", NoEntry, inst, entry, t)

\* A failed exchange that falls back on the cached token instead of raising
TokenStale(c, entry, inst, t) ==
    TokenResult(FALSE, entry.token, c, "failed", NoEntry, inst, entry, t)

\* line 94: resp.raise_for_status() raises
TokenRaised(c, entry, inst, t) ==
    TokenResult(TRUE, 0, c, "failed", NoEntry, inst, entry, t)

\* A store that keeps the expiry of the entry that was read
TokenIssuedMixed(c, entry, inst, t, new) ==
    TokenResult(FALSE, new.token,
                [c EXCEPT ![inst] = [token |-> new.token,
                                     exp_epoch |-> entry.exp_epoch]],
                "ok", new, inst, entry, t)

\* lines 95-99: store the new entry and return its token
TokenIssued(c, entry, inst, t, new) ==
    TokenResult(FALSE, new.token, [c EXCEPT ![inst] = new], "ok", new, inst,
                entry, t)

\* get_installation_token(installation_id) run at time t against cache c, with
\* n tokens issued so far and resp the answer of the endpoint if it is asked
get_installation_token(c, n, t, inst, resp) ==
    LET entry == IF inst \in DOMAIN c THEN c[inst] ELSE NoEntry IN
    IF CacheHit(entry, t) THEN TokenCached(c, entry, inst, t)
    ELSE IF ~resp.ok THEN TokenRaised(c, entry, inst, t)
    ELSE TokenIssued(c, entry, inst, t,
                     [token |-> n + 1, exp_epoch |-> t + resp.life])

\* GitHub's list of issued tokens after a call that returned r
Issue(r) == IF r.grant = NoEntry THEN issued ELSE Append(issued, r.grant)

\* A call may run only while the model still has room for the token it issues
Room(r) == r.grant = NoEntry \/ Len(issued) < MaxExchanges

\* No call of get_installation_token
NoCall == TokenResult(FALSE, 0, << >>, "none", NoEntry, 0, NoEntry, 0)

(***************************************************************************)
(* Outbound calls and comment bodies.                                      *)
(***************************************************************************)
\* One outbound call: which, with which installation token (0: none, the
\* exchange is authorised by the app JWT), when, and whether it succeeded
Call(op, token, t, ok) == [op |-> op, token |-> token, at |-> t, ok |-> ok]

\* The outbound call a get_installation_token call made, if any
TokCalls(r) ==
    IF r.exchange = "none" THEN << >>
    ELSE << Call("exchange", 0, r.at, r.exchange = "ok") >>

\* Comment bodies, by kind and the text they embed
Body(kind, arg) == [kind |-> kind, arg |-> arg]
RunningBody(model)    == Body("running", model)            \* github_events.py:237
NoContentNotice       == "La revision no produjo contenido."  \* github_events.py:41
ReviewBody(review_md) == Body("review", review_md)         \* github_events.py:43
ErrorBodyNoText(e)    == Body("error", "")   \* an error body without `{e}`
ErrorBody(e)          == Body("error", e)                  \* github_events.py:50
OnlyPRBody            == Body("only_pr", "")               \* github_events.py:207
UnsupportedModelBody  == Body("unsupported_model", "")     \* github_events.py:220

\* MODELS of services/openai/models.py: the id of each internal key
MODELS ==
    [gpt5 |-> "gpt-5", gpt5mini |-> "gpt-5-mini", gpt4omini |-> "gpt-4o-mini"]

\* The supported model identifiers (planner.AVAILABLE)
AVAILABLE == {"gpt-5", "gpt-5-mini", "gpt-4o-mini"}

\* make_price_table: for each model id it lists, the key of MODELS whose
\* prices estimate_cost uses ("" stands for the IndexError of the lookup)
make_price_table ==
    [m \in {"gpt-5", "gpt-5-mini", "gpt-4o-mini"} |->
        IF \E k \in DOMAIN MODELS : MODELS[k] = m
        THEN CHOOSE k \in DOMAIN MODELS : MODELS[k] = m
        ELSE ""]

\* One row of the cost table: the label, then the price found under it
\* (the model keeps which price, not its amount)
BudgetRow(prices, label) == "| " \o label \o " | $" \o prices[label] \o " |"

\* A cost table without the row of gpt-4o-mini
render_budget_comment_short(prices) ==
    BudgetRow(prices, "gpt-5") \o "\n" \o BudgetRow(prices, "gpt-5-mini")

\* render_budget_comment: the rows of the cost table, one per line
render_budget_comment(prices) ==
    BudgetRow(prices, "gpt-5") \o "\n" \o BudgetRow(prices, "gpt-5-mini")
        \o "\n" \o BudgetRow(prices, "gpt-4o-mini")

\* The budget comment of _handle_pull_request
BudgetBody == Body("budget", render_budget_comment(make_price_table))

NoPost == [ok |-> FALSE, body |-> Body("", "")]
NoJob == [installation_id |-> 0, model |-> "", placeholder_id |-> 0]

\* What a handler did: its result (True, False, or the exception that left
\* it), the outbound calls in order, its get_installation_token call, the
\* comment it created and the review job it started
Effect(result, calls, tok, post, start) ==
    [result |-> result, calls |-> calls, tok |-> tok, post |-> post,
     start |-> start]

Quiet(result) == Effect(result, << >>, NoCall, NoPost, NoJob)

(***************************************************************************)
(* github_utils.extract_owner_repo and the payload accessors.              *)
(***************************************************************************)
NoRepository == [owner |-> "", name |-> ""]
NoInstallation == [id |-> 0, account |-> ""]

\* A resolution that looks at the organization before the repository
extract_owner_repo_org_first(p) ==
    IF p.organization # "" THEN p.organization
    ELSE IF p.repository # NoRepository THEN p.repository.owner
    ELSE IF p.installation.account # "" THEN p.installation.account
    ELSE ""

\* extract_owner_repo(payload)[0]; "" stands for None
extract_owner_repo(p) ==
    IF p.repository # NoRepository THEN p.repository.owner
    ELSE IF p.organization # "" THEN p.organization
    ELSE IF p.installation.account # "" THEN p.installation.account
    ELSE ""

(***************************************************************************)
(* services/openai/requests.review_pull_request, as _run_review_job calls  *)
(* it.                                                                     *)
(***************************************************************************)
\* review_pull_request(pr_details, pr_files, pr_commits,
\*                     security_findings=None, *, model=..., ...)
MaxPositional == 4
\* _run_review_job passes (model, owner, repo, pr_number, files, commits, opts)
PositionalPassed == 7

\* What the provider may answer: a provider error, or a completion whose
\* content is text, whitespace only, or empty
Completions == {"error", "## Resumen", "  \n", ""}

\* The call of review_pull_request with nargs positional arguments: Python
\* binds the arguments before the body runs
review_pull_request(nargs, completion) ==
    IF nargs > MaxPositional
    THEN [raised |-> TRUE, e |-> "TypeError", text |-> "", called |-> FALSE]
    ELSE IF completion = "error"
    THEN [raised |-> TRUE, e |-> "APIError", text |-> "", called |-> TRUE]
    ELSE [raised |-> FALSE, e |-> "", text |-> Strip(completion),
          called |-> TRUE]

(***************************************************************************)
(* EventRouter: the handlers of github_events.py.  Each is an operator     *)
(* from the payload p, the cache c, the number n of tokens issued, the     *)
(* time t and the environment's answers env to the handler's Effect.       *)
(***************************************************************************)
\* _handle_installation_created
_handle_installation_created(p) == Quiet("True")

\* _handle_installation_repositories_added
_handle_installation_repositories_added(p) == Quiet("True")

\* The pull_request actions that get a budget comment
BudgetActions == {"opened", "synchronize", "ready_for_review"}

\* _handle_pull_request
_handle_pull_request(p, c, n, t, env) ==
    IF p.action \notin BudgetActions THEN Quiet("True")
    ELSE
    LET r == get_installation_token(c, n, t, p.installation.id, env.exchange)
        c1 == TokCalls(r)
        c2 == Append(c1, Call("fetch_files", r.token, t, env.files))
        c3 == Append(c2, Call("fetch_commits", r.token, t, env.commits))
        c4 == Append(c3, Call("post_comment", r.token, t, env.post))
    IN  IF r.raised THEN Effect("HTTPError", c1, r, NoPost, NoJob)
        ELSE IF ~env.files THEN Effect("HTTPError", c2, r, NoPost, NoJob)
        ELSE IF ~env.commits THEN Effect("HTTPError", c3, r, NoPost, NoJob)
        ELSE IF ~env.post THEN Effect("HTTPError", c4, r, NoPost, NoJob)
        ELSE Effect("True", c4, r, [ok |-> TRUE, body |-> BudgetBody], NoJob)

\* MODEL_ALIASES.get(alias); "" stands for None
ModelAlias(alias) ==
    CASE alias \in {"gpt5", "gpt-5"} -> "gpt-5"
      [] alias \in {"gpt5-mini", "gpt-5-mini"} -> "gpt-5-mini"
      [] alias \in {"4o-mini", "gpt-4o-mini"} -> "gpt-4o-mini"
      [] OTHER -> ""

\* A notice whose failure leaves the handler
TryPostRaises(p, c, n, t, env, body) ==
    LET r == get_installation_token(c, n, t, p.installation.id, env.exchange)
        c1 == TokCalls(r)
        c2 == Append(c1, Call("post_comment", r.token, t, env.post))
    IN  IF r.raised THEN Effect("HTTPError", c1, r, NoPost, NoJob)
        ELSE IF ~env.post THEN Effect("HTTPError", c2, r, NoPost, NoJob)
        ELSE Effect("True", c2, r, [ok |-> TRUE, body |-> body], NoJob)

\* try: token = get_installation_token(inst_id); post_comment(..., body)
\* except Exception: pass       (github_events.py:204-209 and 216-224)
TryPost(p, c, n, t, env, body) ==
    LET r == get_installation_token(c, n, t, p.installation.id, env.exchange)
        c1 == TokCalls(r)
        c2 == Append(c1, Call("post_comment", r.token, t, env.post))
    IN  IF r.raised THEN Effect("True", c1, r, NoPost, NoJob)
        ELSE IF ~env.post THEN Effect("True", c2, r, NoPost, NoJob)
        ELSE Effect("True", c2, r, [ok |-> TRUE, body |-> body], NoJob)

\* BOT_LOGIN = os.environ.get("GITHUB_BOT_LOGIN", "").strip().lower(), with
\* the variable set to "RepoBot"
BOT_LOGIN == Lower(Strip("RepoBot"))

\* A guard that knows the configured login only, not the "[bot]" suffix
IsBotAuthorExact(user_login, bot_login) == user_login = bot_login

\* The self-reply guard of _handle_issue_comment
IsBotAuthor(user_login, bot_login) ==
    user_login = bot_login \/ EndsWith(user_login, "[bot]")

\* The comment actions _handle_issue_comment goes on with
CommentActions == {"created", "edited"}

\* Lines 164-192 of _handle_issue_comment, which read the comment alone: where
\* they return ("True"), raise ("IndexError") or go on ("") with the model
\* MODEL_ALIASES gives
CommentCommand(comment) ==
    LET user_login == Lower(Strip(comment.login))
        lines == SplitLines(Strip(comment.body))
    IN
    IF IsBotAuthor(user_login, BOT_LOGIN) THEN [stop |-> "True", model |-> ""]
    ELSE IF Len(lines) = 0 THEN [stop |-> "IndexError", model |-> ""]
    ELSE
    LET first_line == Strip(lines[1])
        parts == Split(first_line)
    IN
    IF ~StartsWith(Lower(first_line), "/bot ")
    THEN [stop |-> "True", model |-> ""]
    ELSE IF Len(parts) < 3 \/ Lower(parts[2]) # "review"
    THEN [stop |-> "True", model |-> ""]
    ELSE [stop |-> "", model |-> ModelAlias(Lower(parts[3]))]

Logins == {"alice", "RepoBot", "dependabot[bot]"}

CommentBodies ==
    {"/bot review gpt-5", "  /BOT Review GPT5-mini\nthanks", "hello /bot",
     "/bot review bogus-model", "",
     "/bot review gpt-5 max:500 temp:0.3", "/bot help", "/bot Models"}

Comments == [login : Logins \cup {""}, body : CommentBodies]

\* CommentCommand of every comment of the model, as an explicit table
CommentCommands == [c \in Comments |-> CommentCommand(c)] @@ << >>

\* _handle_issue_comment, with next_id the id GitHub gives the next comment
_handle_issue_comment(p, c, n, t, env, next_id) ==
    IF p.action \notin CommentActions THEN Quiet("True")
    ELSE
    LET cmd == CommentCommands[p.comment] IN
    IF cmd.stop # "" THEN Quiet(cmd.stop)
    ELSE
    LET model == cmd.model
        owner == p.repository.owner
        repo == p.repository.name
        inst_id == p.installation.id
        pr_number == p.issue.number
    IN
    IF ~p.issue.is_pr
    THEN IF owner # "" /\ repo # "" /\ inst_id # 0
         THEN TryPost(p, c, n, t, env, OnlyPRBody)
         ELSE Quiet("True")
    ELSE IF model = ""
    THEN IF owner # "" /\ repo # "" /\ inst_id # 0
         THEN TryPost(p, c, n, t, env, UnsupportedModelBody)
         ELSE Quiet("True")
    ELSE IF ~(owner # "" /\ repo # "" /\ pr_number # 0 /\ inst_id # 0)
    THEN Quiet("True")
    ELSE
    LET e == TryPost(p, c, n, t, env, RunningBody(model)) IN
    IF ~e.post.ok THEN e
    ELSE [e EXCEPT !.start = [installation_id |-> inst_id, model |-> model,
                               placeholder_id |-> next_id]]

\* A router without the owner filter
OwnerFilteredOff(owner, allowed_owners) == FALSE

\* The owner filter of handle_github_event
OwnerFiltered(owner, allowed_owners) ==
    allowed_owners # {} /\ (owner = "" \/ owner \notin allowed_owners)

\* handle_github_event(event, payload, allowed_owners)
handle_github_event(p, allowed_owners, c, n, t, env, next_id) ==
    IF OwnerFiltered(extract_owner_repo(p), allowed_owners) THEN Quiet("True")
    ELSE IF p.event = "installation" /\ p.action = "created"
    THEN _handle_installation_created(p)
    ELSE IF p.event = "installation_repositories" /\ p.action = "added"
    THEN _handle_installation_repositories_added(p)
    ELSE IF p.event = "pull_request"
    THEN _handle_pull_request(p, c, n, t, env)
    ELSE IF p.event = "issue_comment"
    THEN _handle_issue_comment(p, c, n, t, env, next_id)
    ELSE Quiet("False")

(***************************************************************************)
(* _run_review_job: one record per thread, pc its position.                *)
(*   "token"   line 35      "files" line 36     "commits" line 37          *)
(*   "review"  lines 39-43  "except" lines 44-53  "done"                   *)
(* token = 0 is the unbound local; e is the exception caught at line 44;   *)
(* updates are the update_comment attempts made so far.                    *)
(***************************************************************************)
\* A thread started with another comment's id as its update target
NewJobWrongTarget(start) ==
    [pc |-> "token", installation_id |-> start.installation_id,
     model |-> start.model, opts |-> << >>,
     placeholder_id |-> start.placeholder_id + 1,
     token |-> 0, e |-> "", updates |-> << >>]

\* lines 243-247: threading.Thread(target=_run_review_job, ...).start()
NewJob(start) ==
    [pc |-> "token", installation_id |-> start.installation_id,
     model |-> start.model, opts |-> << >>,
     placeholder_id |-> start.placeholder_id,
     token |-> 0, e |-> "", updates |-> << >>]

\* update_comment(owner, repo, comment_id, token, body_md) on GitHub's side
update_comment(cs, id, body, ok) ==
    IF ok /\ id \in DOMAIN cs THEN [cs EXCEPT ![id] = body] ELSE cs

\* A job boundary that lets the exception end the thread
RaiseEscapes(job, e) == [job EXCEPT !.pc = "done", !.e = e]

\* line 44: except Exception as e
Raise(job, e) == [job EXCEPT !.pc = "except", !.e = e]

Attempt(body, ok) == [body |-> body, ok |-> ok]

\* if not review_md or not review_md.strip(): review_md = notice
ReviewMd(text) == IF Strip(text) = "" THEN NoContentNotice ELSE text

(***************************************************************************)
(* Deliveries.                                                             *)
(***************************************************************************)
BasePayload ==
    [via |-> "router", event |-> "", action |-> "",
     repository |-> NoRepository,
     organization |-> "", installation |-> NoInstallation,
     pull_request |-> [draft |-> FALSE, number |-> 0],
     comment |-> [login |-> "", body |-> ""],
     issue |-> [is_pr |-> FALSE, number |-> 0],
     repositories |-> << >>]

Owners == {"Janiel777", "mallory"}

\* The installation of each owner's account
InstOf(owner) == IF owner = "Janiel777" THEN 1 ELSE 2

Repo(owner) == [owner |-> owner, name |-> "repo"]
Inst(owner) == [id |-> InstOf(owner), account |-> owner]

InstallationPayloads ==
    { [BasePayload EXCEPT !.event = ea[1], !.action = ea[2],
                          !.installation = i, !.repositories = rs] :
        ea \in { <<"installation", "created">>, <<"installation", "deleted">>,
                 <<"installation_repositories", "added">> },
        i \in { Inst(o) : o \in Owners } \cup { [id |-> 1, account |-> ""] },
        rs \in { << >>, << "r1", "r2" >> } }

PullRequestPayloads ==
    { [BasePayload EXCEPT !.event = "pull_request", !.action = a,
                          !.repository = Repo(o), !.installation = i,
                          !.pull_request = [draft |-> d, number |-> 7]] :
        a \in {"opened", "reopened", "closed"}, o \in Owners,
        i \in { Inst("Janiel777"), NoInstallation }, d \in BOOLEAN }

CommentPayloads ==
    { [BasePayload EXCEPT !.event = "issue_comment", !.action = a,
                          !.repository = Repo(o), !.installation = Inst(o),
                          !.comment = [login |-> l, body |-> b],
                          !.issue = [is_pr |-> pr, number |-> 7]] :
        a \in {"created", "deleted"}, o \in Owners, l \in Logins,
        b \in CommentBodies, pr \in BOOLEAN }

\* Comments that were edited into a command, or into no command
EditedPayloads ==
    { [BasePayload EXCEPT !.event = "issue_comment", !.action = "edited",
                          !.repository = Repo(o), !.installation = Inst(o),
                          !.comment = [login |-> "alice", body |-> b],
                          !.issue = [is_pr |-> TRUE, number |-> 7]] :
        o \in Owners, b \in {"/bot review gpt-5", "hello /bot"} }

OtherPayloads ==
    { [BasePayload EXCEPT !.event = "push", !.repository = Repo(o)] :
        o \in Owners }
    \cup
    { [BasePayload EXCEPT !.event = "member", !.action = "added",
                          !.repository = r, !.organization = org,
                          !.installation = i] :
        r \in { NoRepository, Repo("Janiel777") },
        org \in { "", "mallory" },
        i \in { NoInstallation, Inst("Janiel777") } }

Payloads ==
    InstallationPayloads \cup PullRequestPayloads \cup CommentPayloads
        \cup EditedPayloads \cup OtherPayloads

\* The environment's answers to the calls a handler may make for payload p
Envs(p) ==
    IF p.event \notin {"pull_request", "issue_comment"}
    THEN { [exchange |-> [ok |-> FALSE, life |-> 0], files |-> TRUE,
            commits |-> TRUE, post |-> TRUE] }
    ELSE { [exchange |-> x, files |-> f, commits |-> cm, post |-> po] :
             x \in ExchangeResponses(p.installation.id),
             f \in (IF p.event = "pull_request" THEN BOOLEAN ELSE {TRUE}),
             cm \in (IF p.event = "pull_request" THEN BOOLEAN ELSE {TRUE}),
             po \in BOOLEAN }

\* What `last` keeps of a get_installation_token call
TokInfo(r) ==
    [raised |-> r.raised, token |-> r.token, exchange |-> r.exchange,
     grant |-> r.grant, inst |-> r.inst, before |-> r.before, at |-> r.at,
     called |-> r # NoCall]

\* One invocation of handle_github_event with the payload, as the attempt-th
\* delivery of the same (delivery id, payload)
Dispatch(attempt) ==
    /\ payload.via = "router"
    /\ deliveries < MaxDeliveries
    /\ \E env \in Envs(payload) :
         LET e == handle_github_event(payload, ALLOWED_OWNERS, _token_cache,
                                      Len(issued), now, env, Len(comments) + 1)
         IN  /\ Room(e.tok)
             /\ _token_cache' = IF e.tok = NoCall THEN _token_cache
                                ELSE e.tok.cache
             /\ issued' = Issue(e.tok)
             /\ comments' = IF e.post.ok THEN Append(comments, e.post.body)
                            ELSE comments
             /\ jobs' = IF e.start = NoJob THEN jobs
                        ELSE Append(jobs, NewJob(e.start))
             /\ last' = [op |-> "handle_github_event",
                         attempt |-> attempt, result |-> e.result,
                         calls |-> e.calls, tok |-> TokInfo(e.tok),
                         posted |-> e.post,
                         job |-> IF e.start = NoJob THEN 0 ELSE Len(jobs) + 1]
    /\ deliveries' = deliveries + 1
    /\ UNCHANGED << config, now >>

\* GitHub delivers the event under a new delivery id
Deliver == Dispatch(1)

\* GitHub delivers the latest delivery again (same delivery id and payload)
Redeliver ==
    /\ last.op = "handle_github_event"
    /\ Dispatch(last.attempt + 1)

(***************************************************************************)
(* The steps of a review job.                                              *)
(***************************************************************************)
JobLast(j, calls, tok) ==
    [op |-> "_run_review_job", job |-> j, calls |-> calls,
     tok |-> TokInfo(tok)]

\* line 35: token = get_installation_token(installation_id)
JobToken(j) ==
    /\ jobs[j].pc = "token"
    /\ \E resp \in ExchangeResponses(jobs[j].installation_id) :
         LET r == get_installation_token(_token_cache, Len(issued), now,
                                         jobs[j].installation_id, resp)
         IN  /\ Room(r)
             /\ _token_cache' = r.cache
             /\ issued' = Issue(r)
             /\ jobs' = [jobs EXCEPT ![j] =
                   IF r.raised THEN Raise(@, "HTTPError(access_tokens)")
                   ELSE [@ EXCEPT !.pc = "files", !.token = r.token]]
             /\ last' = JobLast(j, TokCalls(r), r)
    /\ UNCHANGED << config, now, comments, deliveries >>

\* line 36: files = fetch_pr_files(owner, repo, pr_number, token)
JobFetchFiles(j) ==
    /\ jobs[j].pc = "files"
    /\ \E ok \in BOOLEAN :
         /\ jobs' = [jobs EXCEPT ![j] =
               IF ok THEN [@ EXCEPT !.pc = "commits"]
               ELSE Raise(@, "HTTPError(files)")]
         /\ last' = JobLast(j, << Call("fetch_files", jobs[j].token, now, ok) >>,
                            NoCall)
    /\ UNCHANGED << config, now, _token_cache, issued, comments, deliveries >>

\* line 37: commits = fetch_pr_commits(owner, repo, pr_number, token)
JobFetchCommits(j) ==
    /\ jobs[j].pc = "commits"
    /\ \E ok \in BOOLEAN :
         /\ jobs' = [jobs EXCEPT ![j] =
               IF ok THEN [@ EXCEPT !.pc = "review"]
               ELSE Raise(@, "HTTPError(commits)")]
         /\ last' = JobLast(j, << Call("fetch_commits", jobs[j].token, now, ok) >>,
                            NoCall)
    /\ UNCHANGED << config, now, _token_cache, issued, comments, deliveries >>

\* lines 39-43: the model call, then the update of the placeholder
JobReview(j) ==
    /\ jobs[j].pc = "review"
    /\ \E completion \in Completions, ok \in BOOLEAN :
         LET r == review_pull_request(PositionalPassed, completion)
             body == ReviewBody(ReviewMd(r.text))
             c1 == IF r.called
                   THEN << Call("chat_completions", 0, now, ~r.raised) >>
                   ELSE << >>
             c2 == Append(c1, Call("update_comment", jobs[j].token, now, ok))
         IN  IF r.raised
             THEN /\ jobs' = [jobs EXCEPT ![j] = Raise(@, r.e)]
                  /\ comments' = comments
                  /\ last' = JobLast(j, c1, NoCall)
             ELSE /\ jobs' = [jobs EXCEPT ![j] =
                        IF ok
                        THEN [@ EXCEPT !.pc = "done",
                                !.updates = Append(@, Attempt(body, TRUE))]
                        ELSE [Raise(@, "HTTPError(comment)") EXCEPT
                                !.updates = Append(@, Attempt(body, FALSE))]]
                  /\ comments' = update_comment(comments,
                                     jobs[j].placeholder_id, body, ok)
                  /\ last' = JobLast(j, c2, NoCall)
    /\ UNCHANGED << config, now, _token_cache, issued, deliveries >>

\* lines 44-53: the handler of the job boundary
JobExcept(j) ==
    /\ jobs[j].pc = "except"
    /\ \E resp \in ExchangeResponses(jobs[j].installation_id), ok \in BOOLEAN :
         LET bound == jobs[j].token # 0
             r == IF bound THEN NoCall
                  ELSE get_installation_token(_token_cache, Len(issued), now,
                                              jobs[j].installation_id, resp)
             token == IF bound THEN jobs[j].token ELSE r.token
             body == ErrorBody(jobs[j].e)
             c1 == TokCalls(r)
             c2 == Append(c1, Call("update_comment", token, now, ok))
         IN  /\ Room(r)
             /\ _token_cache' = IF bound THEN _token_cache ELSE r.cache
             /\ issued' = Issue(r)
             /\ IF r.raised
                THEN /\ jobs' = [jobs EXCEPT ![j].pc = "done"]
                     /\ comments' = comments
                     /\ last' = JobLast(j, c1, r)
                ELSE /\ jobs' = [jobs EXCEPT ![j] =
                           [@ EXCEPT !.pc = "done", !.token = token,
                                   !.updates = Append(@, Attempt(body, ok))]]
                     /\ comments' = update_comment(comments,
                                        jobs[j].placeholder_id, body, ok)
                     /\ last' = JobLast(j, c2, r)
    /\ UNCHANGED << config, now, deliveries >>

\* One step of the review-job thread j, once it has been started
_run_review_job(j) ==
    /\ j \in DOMAIN jobs
    /\ \/ JobToken(j)
       \/ JobFetchFiles(j)
       \/ JobFetchCommits(j)
       \/ JobReview(j)
       \/ JobExcept(j)

\* Time passes
Tick ==
    /\ \E d \in TickSteps : now + d <= MaxTime /\ now' = now + d
    /\ UNCHANGED << config, _token_cache, issued, comments, jobs, deliveries,
                    last >>

(***************************************************************************)
(* SignatureVerifier and the HTTP front door (app.py).                     *)
(***************************************************************************)
\* The ASCII characters of the model; any other character is non-ASCII
AsciiChars ==
    "abcdefghijklmnopqrstuvwxyzABCDEFGHIJKLMNOPQRSTUVWXYZ0123456789{}:=-_/ "
HexChars == "0123456789abcdef"

IsAscii(s) ==
    \A i \in 1..Len(s) :
        \E k \in 1..Len(AsciiChars) : CharAt(AsciiChars, k) = CharAt(s, i)

\* The code of a character: its place in AsciiChars, 0 for any other
Code(c) ==
    IF IsAscii(c) THEN CHOOSE k \in 1..Len(AsciiChars) : CharAt(AsciiChars, k) = c
    ELSE 0

\* A position-weighted sum of the codes of s
Mix(s) ==
    LET F[i \in 0..Len(s)] ==
            IF i = 0 THEN 0 ELSE (F[i - 1] * 31 + Code(CharAt(s, i))) % 256
    IN  F[Len(s)]

\* hmac.new(secret, msg=raw_body, digestmod=sha256).hexdigest(): a keyed
\* digest of the body, in lower-case hex (two digits in the model)
hexdigest(secret, raw_body) ==
    LET h == (Mix(secret) * 17 + Mix(raw_body) * 3 + Len(raw_body)) % 256 IN
    CharAt(HexChars, (h \div 16) + 1) \o CharAt(HexChars, (h % 16) + 1)

\* hmac.compare_digest(a, b) on str: TypeError unless both are ASCII
compare_digest(a, b) ==
    IF ~IsAscii(a) \/ ~IsAscii(b) THEN "TypeError"
    ELSE IF a = b THEN "True" ELSE "False"

\* signature_header.split("=", 1): << >> when the unpacking into (scheme,
\* received_sig) raises ValueError
SplitHeader(h) ==
    LET k == FindIn(h, {"="}, 1) IN
    IF k = 0 THEN << >>
    ELSE << SubSeq(h, 1, k - 1), SubSeq(h, k + 1, Len(h)) >>

\* The outcome of a check: the HTTP status it aborts with, 0 when it passes
Abort(status, why) == [status |-> status, why |-> why]
Pass == Abort(0, "")

\* verify_signature(raw_body, signature_header), github_auth.py:53 and
\* app.py:34 (the same checks in the same order)
verify_signature(secret, raw_body, signature_header) ==
    LET parts == SplitHeader(signature_header) IN
    IF secret = "" THEN Abort(500, "MissingSecret")
    ELSE IF signature_header = "" THEN Abort(401, "MissingSignature")
    ELSE IF parts = << >> THEN Abort(401, "MalformedSignature")
    ELSE IF Lower(parts[1]) # "sha256" THEN Abort(401, "UnsupportedScheme")
    ELSE LET eq == compare_digest(parts[2], hexdigest(secret, raw_body)) IN
         IF eq = "TypeError" THEN Abort(500, "TypeError")
         ELSE IF eq = "False" THEN Abort(401, "SignatureMismatch")
         ELSE Pass

\* JSON bodies of the model: "{}" and "{owner:<login>}"
RawBodies == {"{}", "{owner:Janiel777}", "{owner:mallory}"}

\* json.loads(raw): the payload a body of the model stands for
JsonLoads(raw) ==
    IF StartsWith(raw, "{owner:")
    THEN [BasePayload EXCEPT
            !.repository = Repo(SubSeq(raw, 8, Len(raw) - 1))]
    ELSE BasePayload

\* The owner filter of webhook (app.py:127)
WebhookFiltered(owner, allowed_owners) ==
    allowed_owners # {} /\ owner \notin allowed_owners

\* webhook() of app.py: the response for a request with raw body raw,
\* X-Hub-Signature-256 sig256 and X-GitHub-Event event
webhook(secret, allowed_owners, raw, sig256, event) ==
    LET parts == SplitHeader(sig256)
        v == verify_signature(secret, raw, sig256)
        owner == extract_owner_repo(JsonLoads(raw))
    IN
    IF sig256 = "" THEN Abort(401, "MissingSignature")
    ELSE IF parts = << >> THEN Abort(401, "MalformedSignature")
    ELSE IF Lower(parts[1]) # "sha256" THEN Abort(401, "UnsupportedScheme")
    ELSE IF v # Pass THEN v
    ELSE IF event = "ping" THEN [status |-> 200, why |-> "pong"]
    ELSE IF WebhookFiltered(owner, allowed_owners)
    THEN [status |-> 204, why |-> ""]
    ELSE [status |-> 200, why |-> "ok"]

\* The stages webhook() went through for a request, in order: the signature
\* validation (lines 98-117), the parsing of the body (120-121) and the
\* owner check (126-128); it calls no handler
WebhookStages(secret, allowed_owners, raw, sig256, event) ==
    LET r == webhook(secret, allowed_owners, raw, sig256, event) IN
    IF r.status \in {401, 500} THEN << "signature" >>
    ELSE IF event = "ping" THEN << "signature", "parse" >>
    ELSE << "signature", "parse", "owner" >>

Secrets == {"", "s3cret", "hunter2"}

\* One hex digit changed: the digit after it in HexChars
FlipHex(c) ==
    LET k == CHOOSE i \in 1..16 : CharAt(HexChars, i) = c IN
    CharAt(HexChars, (k % 16) + 1)

\* The X-Hub-Signature-256 headers a sender may put on a body whose digest
\* under the configured secret is d
SignatureHeaders(d) ==
    { "", d, "sha256=" \o d, "SHA256=" \o d, "sha1=" \o d, "sha256=",
      "sha256=" \o FlipHex(CharAt(d, 1)) \o CharAt(d, 2),
      "sha256=" \o CharAt(d, 1) \o FlipHex(CharAt(d, 2)),
      "sha256=" \o d \o "0",
      "sha256=" \o CharAt(d, 1) \o "é" }

Events == {"ping", "push", "issue_comment"}

\* The requests of the model: a body, its X-Hub-Signature-256 (derived
\* from some secret of the model) and its X-GitHub-Event
Requests ==
    UNION { { [via |-> "http", raw |-> raw, sig256 |-> h, event |-> event] :
                h \in SignatureHeaders(hexdigest(s, raw)), event \in Events } :
            raw \in RawBodies, s \in Secrets }

\* The request reaches POST /webhook
Webhook ==
    /\ payload.via = "http"
    /\ last' = [op |-> "webhook",
                response |-> webhook(GH_WEBHOOK_SECRET, ALLOWED_OWNERS,
                                     payload.raw, payload.sig256,
                                     payload.event),
                stages |-> WebhookStages(GH_WEBHOOK_SECRET, ALLOWED_OWNERS,
                                         payload.raw, payload.sig256,
                                         payload.event)]
    /\ UNCHANGED << config, now, _token_cache, issued, comments, jobs,
                    deliveries >>

\* A caller checks the body against its signature header (github_auth.py)
VerifySignature ==
    /\ payload.via = "http"
    /\ last' = [op |-> "verify_signature",
                response |-> verify_signature(GH_WEBHOOK_SECRET, payload.raw,
                                              payload.sig256)]
    /\ UNCHANGED << config, now, _token_cache, issued, comments, jobs,
                    deliveries >>

(***************************************************************************)
(* Specifications.  A run handles one envelope: an event given to the      *)
(* router (handle_github_event, any number of times within the bounds), or *)
(* a request given to the HTTP front door.                                 *)
(***************************************************************************)
Fresh ==
    /\ now = 0
    /\ _token_cache = [i \in InstallationIds |-> NoEntry]
    /\ issued = << >>
    /\ comments = << >>
    /\ jobs = << >>
    /\ deliveries = 0
    /\ callers = << >>
    /\ discussions = << >>
    /\ last = [op |-> "none"]

RouterInit ==
    /\ GH_WEBHOOK_SECRET = "s3cret"
    /\ ALLOWED_OWNERS \in { {}, {"Janiel777"} }
    /\ payload \in Payloads
    /\ Fresh

HttpInit ==
    /\ GH_WEBHOOK_SECRET \in Secrets
    /\ ALLOWED_OWNERS \in { {}, {"Janiel777"} }
    /\ payload \in Requests
    /\ Fresh

Init == RouterInit \/ HttpInit

Next ==
    \/ Deliver
    \/ Redeliver
    \/ \E j \in DOMAIN jobs : JobToken(j)
    \/ \E j \in DOMAIN jobs : JobFetchFiles(j)
    \/ \E j \in DOMAIN jobs : JobFetchCommits(j)
    \/ \E j \in DOMAIN jobs : JobReview(j)
    \/ \E j \in DOMAIN jobs : JobExcept(j)
    \/ Tick
    \/ Webhook
    \/ VerifySignature

Spec == Init /\ [][Next]_vars

\* The review-job threads are scheduled fairly: a thread that can take its
\* next step eventually takes it
Fairness == \A j \in 1..MaxDeliveries : WF_vars(_run_review_job(j))

FairSpec == Spec /\ Fairness

\* The HTTP front door and the signature check alone
HttpNext ==
    \/ Webhook
    \/ VerifySignature

HttpSpec == HttpInit /\ [][HttpNext]_vars

(***************************************************************************)
(* Concurrent callers of get_installation_token (github_auth.py:85-99),    *)
(* one step per statement that reads or writes shared state.               *)
(*   "read"  lines 87-89   "post" lines 93-97   "store" lines 98-99        *)
(***************************************************************************)
\* A thread that enters get_installation_token(inst)
NewCaller(inst) ==
    [pc |-> "read", inst |-> inst, entry |-> NoEntry, grant |-> NoEntry,
     token |-> 0]

\* lines 87-89: entry = _token_cache.get(installation_id) and the cache test
TokRead(k) ==
    /\ k \in DOMAIN callers
    /\ callers[k].pc = "read"
    /\ LET entry == _token_cache[callers[k].inst] IN
       callers' = [callers EXCEPT ![k] =
           IF CacheHit(entry, now)
           THEN [@ EXCEPT !.pc = "returned", !.entry = entry,
                          !.token = TokenCached(_token_cache, entry,
                                                callers[k].inst, now).token]
           ELSE [@ EXCEPT !.pc = "post", !.entry = entry]]
    /\ last' = [op |-> "get_installation_token", caller |-> k,
                step |-> "read"]
    /\ UNCHANGED << GH_WEBHOOK_SECRET, ALLOWED_OWNERS, payload, now,
                    _token_cache, issued, comments, jobs, deliveries,
                    discussions >>

\* lines 93-97: the exchange and the reading of its response
TokPost(k) ==
    /\ k \in DOMAIN callers
    /\ callers[k].pc = "post"
    /\ \E resp \in ExchangeResponses(callers[k].inst) :
         IF ~resp.ok
         THEN /\ callers' = [callers EXCEPT ![k].pc = "raised"]
              /\ issued' = issued
         ELSE LET new == [token |-> Len(issued) + 1,
                          exp_epoch |-> now + resp.life] IN
              /\ Len(issued) < MaxExchanges
              /\ callers' = [callers EXCEPT ![k].pc = "store",
                                            ![k].grant = new]
              /\ issued' = Append(issued, new)
    /\ last' = [op |-> "get_installation_token", caller |-> k,
                step |-> "post"]
    /\ UNCHANGED << GH_WEBHOOK_SECRET, ALLOWED_OWNERS, payload, now,
                    _token_cache, comments, jobs, deliveries, discussions >>

\* lines 98-99: the store of the new entry and the return
TokStore(k) ==
    /\ k \in DOMAIN callers
    /\ callers[k].pc = "store"
    /\ LET r == TokenIssued(_token_cache, callers[k].entry, callers[k].inst,
                            now, callers[k].grant) IN
       /\ _token_cache' = r.cache
       /\ callers' = [callers EXCEPT ![k].pc = "returned",
                                     ![k].token = r.token]
    /\ last' = [op |-> "get_installation_token", caller |-> k,
                step |-> "store"]
    /\ UNCHANGED << GH_WEBHOOK_SECRET, ALLOWED_OWNERS, payload, now, issued,
                    comments, jobs, deliveries, discussions >>

RaceInit ==
    /\ GH_WEBHOOK_SECRET = "s3cret"
    /\ ALLOWED_OWNERS = {}
    /\ payload = BasePayload
    /\ now = 0
    /\ _token_cache = [i \in InstallationIds |-> NoEntry]
    /\ issued = << >>
    /\ comments = << >>
    /\ jobs = << >>
    /\ deliveries = 0
    /\ callers \in [1..MaxCallers -> { NewCaller(i) : i \in InstallationIds }]
    /\ discussions = << >>
    /\ last = [op |-> "none"]

RaceNext ==
    \/ \E k \in DOMAIN callers : TokRead(k)
    \/ \E k \in DOMAIN callers : TokPost(k)
    \/ \E k \in DOMAIN callers : TokStore(k)
    \/ Tick

RaceSpec == RaceInit /\ [][RaceNext]_vars

(***************************************************************************)
(* create_welcome_discussion (github_actions.py:126-199), invoked several  *)
(* times for one repository and one title; one step per call to GitHub.    *)
(***************************************************************************)
\* github_actions.py:112: discussions(first:20, orderBy CREATED_AT DESC)
ListLimit == 20

\* line 158: the title (its dash written in ASCII), the same in every
\* invocation
WelcomeTitle == "Bot - canal del bot"

\* The title of any other discussion of the repository
OtherTitle == "Q&A"

Others(n) == [i \in 1..n |-> OtherTitle]

\* The discussions a repository may hold when the first invocation starts
InitialDiscussions ==
    { << >>, << WelcomeTitle >>,
      Others(ListLimit - 1) \o << WelcomeTitle >>,
      Others(ListLimit) \o << WelcomeTitle >> }

\* lines 119-121: the search of the title in the nodes of the first page
_already_has_welcome(all, title) ==
    LET nodes == SubSeq(all, 1, IF Len(all) < ListLimit THEN Len(all)
                                ELSE ListLimit) IN
    \E i \in DOMAIN nodes : nodes[i] = title

\* An invocation create_welcome_discussion(owner, repo, installation_id)
NewInvocation ==
    [pc |-> "token", inst |-> InstOf("Janiel777"), token |-> 0,
     ok |-> FALSE, created |-> FALSE]

\* The invocation ends and returns (ok, ...)
Return(k, ok) == [callers EXCEPT ![k].pc = "done", ![k].ok = ok]

\* line 141: token = get_installation_token(installation_id); a raise leaves
\* create_welcome_discussion
WToken(k) ==
    /\ k \in DOMAIN callers
    /\ callers[k].pc = "token"
    /\ \E resp \in ExchangeResponses(callers[k].inst) :
         LET r == get_installation_token(_token_cache, Len(issued), now,
                                         callers[k].inst, resp) IN
         /\ Room(r)
         /\ _token_cache' = r.cache
         /\ issued' = Issue(r)
         /\ callers' = IF r.raised
                       THEN [callers EXCEPT ![k].pc = "raised"]
                       ELSE [callers EXCEPT ![k].pc = "enable",
                                            ![k].token = r.token]
    /\ last' = [op |-> "create_welcome_discussion", caller |-> k,
                step |-> "token"]
    /\ UNCHANGED << GH_WEBHOOK_SECRET, ALLOWED_OWNERS, payload, now, comments,
                    jobs, deliveries, discussions >>

\* lines 148-151: ensure_discussions_enabled answers True or False
WEnable(k) ==
    /\ k \in DOMAIN callers
    /\ callers[k].pc = "enable"
    /\ \E enabled \in BOOLEAN :
         callers' = IF enabled THEN [callers EXCEPT ![k].pc = "check"]
                    ELSE Return(k, FALSE)
    /\ last' = [op |-> "create_welcome_discussion", caller |-> k,
                step |-> "enable"]
    /\ UNCHANGED << GH_WEBHOOK_SECRET, ALLOWED_OWNERS, payload, now,
                    _token_cache, issued, comments, jobs, deliveries,
                    discussions >>

\* lines 161-167: the listing; when it raises the invocation goes on
WCheck(k) ==
    /\ k \in DOMAIN callers
    /\ callers[k].pc = "check"
    /\ \E listed \in BOOLEAN :
         callers' = IF listed /\ _already_has_welcome(discussions, WelcomeTitle)
                    THEN Return(k, TRUE)
                    ELSE [callers EXCEPT ![k].pc = "category"]
    /\ last' = [op |-> "create_welcome_discussion", caller |-> k,
                step |-> "check"]
    /\ UNCHANGED << GH_WEBHOOK_SECRET, ALLOWED_OWNERS, payload, now,
                    _token_cache, issued, comments, jobs, deliveries,
                    discussions >>

\* lines 170-175: _get_repo_and_category returns the ids or raises
WCategory(k) ==
    /\ k \in DOMAIN callers
    /\ callers[k].pc = "category"
    /\ \E found \in BOOLEAN :
         callers' = IF found THEN [callers EXCEPT ![k].pc = "create"]
                    ELSE Return(k, FALSE)
    /\ last' = [op |-> "create_welcome_discussion", caller |-> k,
                step |-> "category"]
    /\ UNCHANGED << GH_WEBHOOK_SECRET, ALLOWED_OWNERS, payload, now,
                    _token_cache, issued, comments, jobs, deliveries,
                    discussions >>

\* lines 191-199: the createDiscussion mutation
WCreate(k) ==
    /\ k \in DOMAIN callers
    /\ callers[k].pc = "create"
    /\ \E created \in BOOLEAN :
         IF created
         THEN /\ discussions' = << WelcomeTitle >> \o discussions
              /\ callers' = [Return(k, TRUE) EXCEPT ![k].created = TRUE]
         ELSE /\ discussions' = discussions
              /\ callers' = Return(k, FALSE)
    /\ last' = [op |-> "create_welcome_discussion", caller |-> k,
                step |-> "create"]
    /\ UNCHANGED << GH_WEBHOOK_SECRET, ALLOWED_OWNERS, payload, now,
                    _token_cache, issued, comments, jobs, deliveries >>

WelcomeInit ==
    /\ GH_WEBHOOK_SECRET = "s3cret"
    /\ ALLOWED_OWNERS = {}
    /\ payload = BasePayload
    /\ now = 0
    /\ _token_cache = [i \in InstallationIds |-> NoEntry]
    /\ issued = << >>
    /\ comments = << >>
    /\ jobs = << >>
    /\ deliveries = 0
    /\ callers = [k \in 1..MaxCallers |-> NewInvocation]
    /\ discussions \in InitialDiscussions
    /\ last = [op |-> "none"]

WelcomeNext ==
    \/ \E k \in DOMAIN callers : WToken(k)
    \/ \E k \in DOMAIN callers : WEnable(k)
    \/ \E k \in DOMAIN callers : WCheck(k)
    \/ \E k \in DOMAIN callers : WCategory(k)
    \/ \E k \in DOMAIN callers : WCreate(k)

WelcomeSpec == WelcomeInit /\ [][WelcomeNext]_vars

(***************************************************************************)
(* Properties.  `last` is what the latest step did.                        *)
(***************************************************************************)
\* The latest step was an invocation of handle_github_event
Routed == last.op = "handle_github_event"

\* The latest step was a handler or a job step
Acted == last.op \in {"handle_github_event", "_run_review_job"}

\* The latest step called get_installation_token
TokenRequested == Acted /\ last.tok.called

\* The latest invocation of the router requested no token, made no outbound
\* call, created no comment and started no review job
NoSideEffect ==
    /\ ~last.tok.called
    /\ last.calls = << >>
    /\ ~last.posted.ok
    /\ last.job = 0

\* The number of token exchanges of the latest step
Exchanges ==
    Cardinality({ i \in DOMAIN last.calls : last.calls[i].op = "exchange" })

\* The placeholder of job j still shows the running text: no update_comment
\* call of the job has succeeded
StillRunning(j) == \A i \in DOMAIN jobs[j].updates : ~jobs[j].updates[i].ok

\* The latest update_comment attempt of job j
LastAttempt(j) == jobs[j].updates[Len(jobs[j].updates)]

\* C1: a delivery whose (delivery id, payload) has been handled before is a
\* duplicate: handling it again requests no token, makes no outbound call,
\* creates no comment and starts no review job.
C1_DuplicateDeliveryIgnored ==
    Routed /\ last.attempt > 1 => NoSideEffect

EndedUnresolved(j) ==
    \/ jobs[j].updates = << >> /\ jobs[j].token = 0
    \/ jobs[j].updates # << >> /\ ~LastAttempt(j).ok

ModelErrors == {"TypeError", "APIError"}

\* C3: when the model call of a review job raises, the job goes to its own
\* handler and not out of _run_review_job, and it ends only after an attempt
\* to update the placeholder with a body that embeds the exception's text,
\* whether or not that attempt succeeds.
C3_ModelFailureReported ==
    \A j \in DOMAIN jobs :
        jobs[j].e \in ModelErrors =>
            /\ jobs[j].pc \in {"except", "done"}
            /\ jobs[j].pc = "done" =>
                 /\ jobs[j].updates # << >>
                 /\ LastAttempt(j).body = [kind |-> "error", arg |-> jobs[j].e]

\* The model call of a job raised and the job ended after an error update
\* that failed
C3_Witness ==
    \E j \in DOMAIN jobs :
        /\ jobs[j].e = "TypeError"
        /\ jobs[j].pc = "done"
        /\ jobs[j].updates =
             << [body |-> [kind |-> "error", arg |-> "TypeError"],
                 ok |-> FALSE] >>

\* The failures that come from GitHub or from the model provider
EnvErrors ==
    {"HTTPError(access_tokens)", "HTTPError(files)", "HTTPError(commits)",
     "HTTPError(comment)", "APIError"}

\* C4: when the token, both fetches, the provider and the comment update all
\* succeed, the final body of the placeholder is a review: the model's text or
\* the no-content notice, never an error text.
C4_SuccessfulJobPostsReview ==
    \A j \in DOMAIN jobs :
        /\ jobs[j].pc = "done"
        /\ jobs[j].e \notin EnvErrors
        /\ jobs[j].updates # << >>
        /\ LastAttempt(j).ok
        => /\ LastAttempt(j).body.kind = "review"
           /\ LastAttempt(j).body.arg # ""

\* C5: a call of get_installation_token made more than 60 seconds before the
\* cached token's expiry makes no exchange and returns the cached token; a
\* call made at or after the expiry makes exactly one exchange and, when the
\* exchange succeeds, returns the new token and overwrites the cache entry
\* with it.
C5_CacheHitThenExchange ==
    TokenRequested /\ last.tok.before # NoEntry =>
        LET tk == last.tok IN
        /\ tk.before.exp_epoch - tk.at > 60 =>
             /\ Exchanges = 0
             /\ ~tk.raised
             /\ tk.token = tk.before.token
             /\ _token_cache[tk.inst] = tk.before
        /\ tk.at >= tk.before.exp_epoch =>
             /\ Exchanges = 1
             /\ last.calls[1].ok =>
                  /\ ~tk.raised
                  /\ tk.token # tk.before.token
                  /\ _token_cache[tk.inst].token = tk.token
                  /\ _token_cache[tk.inst] = issued[Len(issued)]

\* A job was served token 1 from the cache, and the latest call, made after
\* an entry's expiry, exchanged and overwrote the entry
C5_Witness ==
    /\ TokenRequested
    /\ \E j \in DOMAIN jobs : jobs[j].token = 1
    /\ last.tok.before # NoEntry
    /\ last.tok.at >= last.tok.before.exp_epoch
    /\ Exchanges = 1
    /\ _token_cache[last.tok.inst].token = last.tok.token
    /\ last.tok.token # last.tok.before.token

\* C6: every outbound call that carries an installation token is made more
\* than 60 seconds before that token's expiry.
C6_TokenNeverUsedNearExpiry ==
    Acted =>
        \A i \in DOMAIN last.calls :
            last.calls[i].token # 0 =>
                issued[last.calls[i].token].exp_epoch - last.calls[i].at > 60

\* C7: when the token exchange fails, get_installation_token raises, returns
\* no token (no call is made with one) and leaves the cache entry of the
\* installation as it was.
C7_ExchangeFailurePropagates ==
    TokenRequested /\ last.tok.exchange = "failed" =>
        /\ last.tok.raised
        /\ last.tok.token = 0
        /\ Len(last.calls) = 1
        /\ last.tok.inst \in DOMAIN _token_cache =>
             _token_cache[last.tok.inst] = last.tok.before

\* An exchange failed while the cache held an entry (stale) for the
\* installation
C7_Witness ==
    /\ TokenRequested
    /\ last.tok.exchange = "failed"
    /\ last.tok.before # NoEntry
    /\ last.tok.raised
    /\ _token_cache[last.tok.inst] = last.tok.before

\* The logins of the model that equal the configured bot login "RepoBot"
\* case-insensitively or end with "[bot]"
BotLogins == {"RepoBot", "dependabot[bot]"}

\* C8: an issue_comment delivery whose author is the bot or a "[bot]" account
\* posts no comment, requests no token and starts no review job, whatever the
\* body.
C8_BotCommentsIgnored ==
    /\ Routed
    /\ payload.event = "issue_comment"
    /\ payload.comment.login \in BotLogins
    => NoSideEffect /\ last.result = "True"

\* The bot's own well-formed review command on a pull request of an allowed
\* owner was handled
C8_Witness ==
    /\ Routed
    /\ payload.event = "issue_comment"
    /\ payload.action = "created"
    /\ payload.comment = [login |-> "RepoBot", body |-> "/bot review gpt-5"]
    /\ payload.issue.is_pr
    /\ payload.repository.owner \in ALLOWED_OWNERS
    /\ last.result = "True"

\* The request carries the digest of its body under the configured secret
ValidlySigned ==
    /\ GH_WEBHOOK_SECRET # ""
    /\ payload.sig256 = "sha256=" \o hexdigest(GH_WEBHOOK_SECRET, payload.raw)

\* C9: with an allow-list configured and the payload's owner not in it, the
\* router returns True without a token request, an outbound call, a comment
\* or a review job, for every event and action; and the front door answers a
\* validly signed request 204 (200 to a ping).
C9_FilteredOwnerAcknowledged ==
    ALLOWED_OWNERS # {} =>
        /\ Routed /\ extract_owner_repo(payload) \notin ALLOWED_OWNERS =>
             last.result = "True" /\ NoSideEffect
        /\ /\ last.op = "webhook"
           /\ ValidlySigned
           /\ extract_owner_repo(JsonLoads(payload.raw)) \notin ALLOWED_OWNERS
           => last.response.status = IF payload.event = "ping" THEN 200
                                     ELSE 204

\* A well-formed review command on a pull request of an owner outside the
\* allow-list was handled
C9_Witness ==
    /\ Routed
    /\ ALLOWED_OWNERS # {}
    /\ payload.event = "issue_comment"
    /\ payload.action = "created"
    /\ payload.comment = [login |-> "alice", body |-> "/bot review gpt-5"]
    /\ payload.issue.is_pr
    /\ payload.repository.owner = "mallory"
    /\ last.result = "True"

\* The part of the signature header after "sha256="
DigestPart(h) == SubSeq(h, 8, Len(h))

\* C10: with a non-empty secret, the header "sha256=" followed by the digest
\* of the body under the secret is accepted, and every header "sha256=<d>"
\* whose <d> differs from that digest is rejected with 401 as a signature
\* mismatch.
C10_DigestDecidesSignature ==
    /\ last.op \in {"verify_signature", "webhook"}
    /\ GH_WEBHOOK_SECRET # ""
    /\ StartsWith(payload.sig256, "sha256=")
    => IF DigestPart(payload.sig256)
            = hexdigest(GH_WEBHOOK_SECRET, payload.raw)
       THEN last.response.status \notin {401, 500}
       ELSE last.response = [status |-> 401, why |-> "SignatureMismatch"]

\* C11: with no webhook secret configured, every request to the webhook
\* endpoint is answered 5xx as MissingSecret, whatever its signature header.
C11_MissingSecretIs5xx ==
    last.op = "webhook" /\ GH_WEBHOOK_SECRET = "" =>
        /\ last.response.status >= 500
        /\ last.response.why = "MissingSecret"

\* The owner of the payload passes the allow-list
OwnerAllowed ==
    ALLOWED_OWNERS = {} \/ extract_owner_repo(payload) \in ALLOWED_OWNERS

\* The number of post_comment calls of the latest step
PostCalls ==
    Cardinality({ i \in DOMAIN last.calls : last.calls[i].op = "post_comment" })

\* Every outbound call of the latest step succeeded
AllCallsOk == \A i \in DOMAIN last.calls : last.calls[i].ok

\* The labels of the rows of a cost table, in order
RowLabels(table) ==
    LET rows == SplitLines(table) IN
    [i \in DOMAIN rows |-> Split(rows[i])[2]]

\* C12: a pull_request "opened" delivery on a non-draft pull request of an
\* allowed owner, with every GitHub call succeeding, posts exactly one
\* comment, whose cost table has exactly one row for each of gpt-5,
\* gpt-5-mini and gpt-4o-mini, labelled with that identifier.
C12_OneBudgetCommentThreeRows ==
    /\ Routed
    /\ payload.event = "pull_request"
    /\ payload.action = "opened"
    /\ ~payload.pull_request.draft
    /\ OwnerAllowed
    /\ AllCallsOk
    => /\ PostCalls = 1
       /\ last.posted.ok
       /\ comments # << >>
       /\ comments[Len(comments)] = last.posted.body
       /\ last.posted.body.kind = "budget"
       /\ LET labels == RowLabels(last.posted.body.arg) IN
          /\ Len(labels) = 3
          /\ { labels[i] : i \in DOMAIN labels }
               = {"gpt-5", "gpt-5-mini", "gpt-4o-mini"}

\* The budget comment of an opened, non-draft pull request of an allowed
\* owner was posted while an allow-list is configured
C12_Witness ==
    /\ Routed
    /\ ALLOWED_OWNERS # {}
    /\ payload.event = "pull_request"
    /\ payload.action = "opened"
    /\ ~payload.pull_request.draft
    /\ payload.repository.owner = "Janiel777"
    /\ last.posted.ok
    /\ last.posted.body.kind = "budget"
    /\ Len(comments) = 1

\* C13: a pull_request delivery whose pull request is a draft posts no
\* budget comment, whatever the action.
C13_DraftGetsNoBudgetComment ==
    Routed /\ payload.event = "pull_request" /\ payload.pull_request.draft =>
        PostCalls = 0 /\ ~last.posted.ok

\* The latest invocation of the router handled an issue_comment delivery
RoutedComment == Routed /\ payload.event = "issue_comment"

\* The comment bodies of the model whose first line is "/bot review <id>"
\* with <id> spelled exactly as a supported model identifier
ExactModelBodies ==
    {"/bot review gpt-5", "/bot review gpt-5 max:500 temp:0.3"}

\* C14: a placeholder is posted and a review job started only for a review
\* command whose model token is exactly a supported model identifier; an
\* alias, another spelling or an unknown model starts nothing.
C14_OnlyExactModelStartsReview ==
    /\ RoutedComment
    /\ \/ last.job # 0
       \/ last.posted.ok /\ last.posted.body.kind = "running"
    => payload.comment.body \in ExactModelBodies

\* C15: the review job started for "/bot review gpt-5 max:500 temp:0.3"
\* receives exactly the options max = 500 and temp = 0.3.
C15_JobReceivesOptions ==
    /\ RoutedComment
    /\ last.job # 0
    /\ payload.comment.body = "/bot review gpt-5 max:500 temp:0.3"
    => /\ DOMAIN jobs[last.job].opts = {"max", "temp"}
       /\ jobs[last.job].opts["max"] = "500"
       /\ jobs[last.job].opts["temp"] = "0.3"

\* C16: "/bot help" or "/bot models" (in any case) by a non-bot user on a
\* pull request of an allowed owner, with every GitHub call succeeding, gets
\* exactly one reply and starts no review job.
C16_HelpPostsUsage ==
    /\ RoutedComment
    /\ payload.action = "created"
    /\ payload.issue.is_pr
    /\ payload.comment.login = "alice"
    /\ payload.comment.body \in {"/bot help", "/bot Models"}
    /\ OwnerAllowed
    /\ AllCallsOk
    => /\ PostCalls = 1
       /\ last.posted.ok
       /\ last.job = 0

\* C17: a comment whose first line does not start with "/bot ", the empty
\* body included, is handled without an exception, an outbound call or a
\* review job.
C17_NonCommandIsQuiet ==
    /\ RoutedComment
    /\ payload.comment.login = "alice"
    /\ payload.comment.body \in {"hello /bot", ""}
    => last.result = "True" /\ NoSideEffect

\* C18: a review job is started only by a delivery that created its
\* placeholder, it is given that comment's id as its update target, a
\* delivery whose placeholder was created starts exactly one job, a delivery
\* whose placeholder creation failed starts none, and no two jobs share a
\* placeholder.
C18_PlaceholderBeforeJob ==
    /\ Len(jobs) <= deliveries
    /\ \A j, k \in DOMAIN jobs :
           j # k => jobs[j].placeholder_id # jobs[k].placeholder_id
    /\ Routed =>
         /\ last.job # 0 =>
              /\ last.posted.ok
              /\ last.posted.body.kind = "running"
              /\ PostCalls = 1
              /\ last.job = Len(jobs)
              /\ comments # << >>
              /\ comments[Len(comments)] = last.posted.body
              /\ jobs[last.job].placeholder_id = Len(comments)
         /\ last.posted.ok /\ last.posted.body.kind = "running" =>
              last.job # 0
         /\ ~last.posted.ok => last.job = 0

\* The second delivery of a review command created the second placeholder
\* and started the second job with it as its target
C18_Witness ==
    /\ Routed
    /\ last.attempt = 2
    /\ last.job = 2
    /\ Len(comments) = 2
    /\ jobs[2].placeholder_id = 2
    /\ jobs[1].placeholder_id = 1

\* The number of welcome discussions the latest step asked for
WelcomeCalls ==
    Cardinality({ i \in DOMAIN last.calls :
                    last.calls[i].op = "create_welcome_discussion" })

\* C19: an installation "created" or installation_repositories "added"
\* delivery of an allowed owner asks for one welcome discussion for each
\* repository the payload lists.
C19_WelcomePerRepository ==
    /\ Routed
    /\ OwnerAllowed
    /\ \/ payload.event = "installation" /\ payload.action = "created"
       \/ payload.event = "installation_repositories"
            /\ payload.action = "added"
    => WelcomeCalls = Len(payload.repositories)

\* C20: a request follows the order deduplication check, signature check,
\* parsing, owner check, dispatch: one whose signature check fails stops
\* there, and one that is accepted went through all of them.
C20_DeliveryOrder ==
    last.op = "webhook" =>
        /\ last.response.status \in {401, 500} =>
             \A i \in DOMAIN last.stages :
                 last.stages[i] \notin {"parse", "owner", "dispatch"}
        /\ last.response.why = "ok" =>
             last.stages
               = << "dedup", "signature", "parse", "owner", "dispatch" >>

\* C22: for a non-draft pull request of an allowed owner the budget comment
\* is posted (every GitHub call succeeding) exactly when the action is
\* opened, synchronize, reopened or ready_for_review; any other action
\* requests no token and posts nothing.
C22_BudgetActionsWithReopened ==
    /\ Routed
    /\ payload.event = "pull_request"
    /\ ~payload.pull_request.draft
    /\ OwnerAllowed
    => IF payload.action
            \in {"opened", "synchronize", "reopened", "ready_for_review"}
       THEN AllCallsOk => PostCalls = 1 /\ last.posted.ok
       ELSE ~last.tok.called /\ PostCalls = 0 /\ ~last.posted.ok

\* The dispatch table: the (event, action) pairs that have a handler
InDispatchTable(event, action) ==
    \/ event = "installation" /\ action = "created"
    \/ event = "installation_repositories" /\ action = "added"
    \/ event = "pull_request"
         /\ action \in {"opened", "synchronize", "reopened", "ready_for_review"}
    \/ event = "issue_comment" /\ action = "created"

\* C23: for a delivery of an allowed owner, handle_github_event returns False
\* without an outbound call when the (event, action) pair is outside the
\* dispatch table, and does not return False for a pair in the table.
C23_UnhandledOutsideTable ==
    Routed /\ OwnerAllowed =>
        IF InDispatchTable(payload.event, payload.action)
        THEN last.result # "False"
        ELSE last.result = "False" /\ last.calls = << >>

\* C24: an issue_comment delivery whose action is not "created" posts no
\* comment and starts no review job, whatever its body.
C24_OnlyCreatedRunsCommands ==
    RoutedComment /\ payload.action # "created" =>
        PostCalls = 0 /\ ~last.posted.ok /\ last.job = 0

\* The owner of the payload: the repository's, else the organization's, else
\* the installation account's, else none ("")
ResolvedOwner ==
    CASE payload.repository # NoRepository -> payload.repository.owner
      [] payload.repository = NoRepository /\ payload.organization # ""
           -> payload.organization
      [] OTHER -> payload.installation.account

\* C26: the owner used for allow-listing is the repository's, else the
\* organization's, else the installation account's; with an allow-list
\* configured a delivery whose owner is none or not listed is ignored without
\* a side effect, and a delivery that is not to be filtered reaches the
\* dispatch (an event without a handler returns False).
C26_OwnerResolutionOrder ==
    Routed =>
        /\ ALLOWED_OWNERS # {} /\ ResolvedOwner \notin ALLOWED_OWNERS =>
             last.result = "True" /\ NoSideEffect
        /\ /\ ALLOWED_OWNERS = {} \/ ResolvedOwner \in ALLOWED_OWNERS
           /\ payload.event \in {"push", "member"}
           => last.result = "False"

\* A delivery with a repository of a listed owner and an organization that
\* is not listed reached the dispatch
C26_Witness ==
    /\ Routed
    /\ ALLOWED_OWNERS # {}
    /\ payload.event = "member"
    /\ payload.repository = [owner |-> "Janiel777", name |-> "repo"]
    /\ payload.organization = "mallory"
    /\ last.result = "False"

\* C27: a validly signed request gets the same response whether or not its
\* owner is in the allow-list: the one a listed owner gets.
C27_FilterUnobservable ==
    last.op = "webhook" /\ ValidlySigned /\ payload.event # "ping" =>
        last.response = [status |-> 200, why |-> "ok"]

\* C28: a review job attempts the update of its placeholder at most once,
\* and after its token exchange failed it makes no second exchange.
C28_NoRetryInJob ==
    /\ \A j \in DOMAIN jobs : Len(jobs[j].updates) <= 1
    /\ /\ last.op = "_run_review_job"
       /\ jobs[last.job].e = "HTTPError(access_tokens)"
       /\ jobs[last.job].pc = "done"
       => Exchanges = 0

\* The number of review jobs that are executing
Running == Cardinality({ j \in DOMAIN jobs : jobs[j].pc # "done" })

\* C29: of a burst of accepted review commands, not all the jobs execute at
\* the same time: fewer jobs run at once than commands were accepted.
C29_RunningJobsBounded == Running < MaxDeliveries

\* The comment bodies of the model that are review commands
ReviewCommandBodies ==
    {"/bot review gpt-5", "  /BOT Review GPT5-mini\nthanks",
     "/bot review bogus-model", "/bot review gpt-5 max:500 temp:0.3"}

\* C30: a review command on an issue that is not a pull request returns
\* True, posts no placeholder, starts no job and attempts at most one
\* comment, the only-PR notice, also when the token or the post fails.
C30_NonPrCommandOnlyNotice ==
    /\ RoutedComment
    /\ payload.action = "created"
    /\ ~payload.issue.is_pr
    /\ payload.comment.login = "alice"
    /\ payload.comment.body \in ReviewCommandBodies
    => /\ last.result = "True"
       /\ last.job = 0
       /\ PostCalls <= 1
       /\ last.posted.body.kind # "running"
       /\ last.posted.ok => last.posted.body.kind = "only_pr"

\* The notice for a review command on a plain issue failed to post and the
\* handler returned True
C30_Witness ==
    /\ RoutedComment
    /\ payload.action = "created"
    /\ ~payload.issue.is_pr
    /\ payload.comment = [login |-> "alice", body |-> "/bot review gpt-5"]
    /\ PostCalls = 1
    /\ ~AllCallsOk
    /\ last.result = "True"

\* The entries GitHub granted to the callers that asked for installation i
GrantsFor(i) ==
    { callers[k].grant : k \in { n \in DOMAIN callers :
                                   /\ callers[n].inst = i
                                   /\ callers[n].grant # NoEntry } }

\* C21: under any interleaving of concurrent get_installation_token callers
\* racing on a cache miss, each caller that returns holds a token granted for
\* the installation id it asked for; the cache has exactly one slot per
\* installation id, and a filled slot is, token and expiry together, one
\* grant of an exchange for that installation id; the entry left by a store
\* is the grant of the caller that stored (last writer wins).
C21_RacingCallersKeepCacheCoherent ==
    /\ DOMAIN _token_cache = InstallationIds
    /\ \A k \in DOMAIN callers :
         callers[k].pc = "returned" =>
             callers[k].token \in
                 { g.token : g \in GrantsFor(callers[k].inst) }
    /\ \A i \in InstallationIds :
         _token_cache[i] # NoEntry =>
             /\ _token_cache[i] \in GrantsFor(i)
             /\ issued[_token_cache[i].token] = _token_cache[i]
    /\ (last.op = "get_installation_token" /\ last.step = "store") =>
           _token_cache[callers[last.caller].inst]
               = callers[last.caller].grant

\* Two callers of the same installation both missed, both exchanged, and the
\* one granted first stored last: its entry is the one the cache keeps
C21_Witness ==
    /\ DOMAIN callers = 1..MaxCallers
    /\ callers[1].inst = callers[2].inst
    /\ \A k \in DOMAIN callers :
         callers[k].pc = "returned" /\ callers[k].grant # NoEntry
    /\ callers[1].grant.token = 1
    /\ callers[2].grant.token = 2
    /\ _token_cache[callers[1].inst] = callers[1].grant

\* The discussions of the repository that carry the welcome title
Welcomes == { i \in DOMAIN discussions : discussions[i] = WelcomeTitle }

\* C25: after any sequence of invocations of create_welcome_discussion for
\* the same repository and title, sequential or interleaved, also when the
\* listing fails or the existing welcome discussion is not among the 20 most
\* recent, at most one discussion with the welcome title exists.
C25_AtMostOneWelcome == Cardinality(Welcomes) <= 1

====
